---- MODULE Spec2Model ----
(***************************************************************************)
(* Model of the kubernetes-image-updater controller (src/controller.py).   *)
(*                                                                         *)
(* Python strings are modelled as sequences of one-character strings, so   *)
(* that parsing, splitting, trimming, sorting and joining are computed as  *)
(* the code computes them.  Python dicts are functions whose domain is a   *)
(* set of such strings.  Python None is the value None below.              *)
(***************************************************************************)
EXTENDS Integers, Sequences, FiniteSets, TLC

\* ------------------------------------------------------------------------
\* Bounds of the model
\* ------------------------------------------------------------------------
MaxImageLen == 7
MaxContainers == 2
MaxTicks == 2
MaxMapNames == 3
MaxSelContainers == 3
MaxResolutions == 2
MaxPieces == 6
MaxWorkloads == 2

\* ------------------------------------------------------------------------
\* Strings
\* ------------------------------------------------------------------------
None == <<"<None>">>

AsciiOrder ==
  <<" ", "\"", ",", "-", ".", "/",
    "0", "1", "2", "3", "4", "5", "6", "7", "8", "9", ":", "=",
    "A", "B", "C", "D", "E", "F", "G", "H", "I", "J", "K", "L", "M",
    "N", "O", "P", "Q", "R", "S", "T", "U", "V", "W", "X", "Y", "Z", "_",
    "a", "b", "c", "d", "e", "f", "g", "h", "i", "j", "k", "l", "m",
    "n", "o", "p", "q", "r", "s", "t", "u", "v", "w", "x", "y", "z">>

Ord(c) == CHOOSE i \in 1..Len(AsciiOrder) : AsciiOrder[i] = c

\* Python's  c in s
Contains(s, c) == \E i \in 1..Len(s) : s[i] = c

\* s[i:] and s[:i] with 1-based positions
From(s, i) == SubSeq(s, i, Len(s))
Upto(s, i) == SubSeq(s, 1, i)

\* position of the first / the last occurrence of c in s, 0 when absent
Find(s, c) ==
  IF Contains(s, c)
  THEN CHOOSE i \in 1..Len(s) : s[i] = c /\ \A j \in 1..(i-1) : s[j] # c
  ELSE 0

RFind(s, c) ==
  IF Contains(s, c)
  THEN CHOOSE i \in 1..Len(s) : s[i] = c /\ \A j \in (i+1)..Len(s) : s[j] # c
  ELSE 0

\* Python's  s.startswith(p)
StartsWith(s, p) == Len(s) >= Len(p) /\ Upto(s, Len(p)) = p

\* Python's  s.split(c): always at least one piece
RECURSIVE Split(_, _)
Split(s, c) ==
  IF ~Contains(s, c) THEN <<s>>
  ELSE <<Upto(s, Find(s, c) - 1)>> \o Split(From(s, Find(s, c) + 1), c)

\* Python's  s.split(c, 1)
Split1(s, c) ==
  IF ~Contains(s, c) THEN <<s>>
  ELSE <<Upto(s, Find(s, c) - 1), From(s, Find(s, c) + 1)>>

\* Python's  s.rsplit(c, 1)
RSplit1(s, c) ==
  IF ~Contains(s, c) THEN <<s>>
  ELSE <<Upto(s, RFind(s, c) - 1), From(s, RFind(s, c) + 1)>>

\* Python's  s.strip()
RECURSIVE LStrip(_)
LStrip(s) == IF s # <<>> /\ Head(s) = " " THEN LStrip(Tail(s)) ELSE s

RECURSIVE RStrip(_)
RStrip(s) ==
  IF s # <<>> /\ s[Len(s)] = " " THEN RStrip(Upto(s, Len(s) - 1)) ELSE s

Strip(s) == RStrip(LStrip(s))

\* Python's  sep.join(parts)
RECURSIVE Join(_, _)
Join(parts, sep) ==
  IF parts = <<>> THEN <<>>
  ELSE IF Len(parts) = 1 THEN parts[1]
  ELSE parts[1] \o sep \o Join(Tail(parts), sep)

\* Python's  s < t on strings (code point order)
RECURSIVE StrLt(_, _)
StrLt(s, t) ==
  IF t = <<>> THEN FALSE
  ELSE IF s = <<>> THEN TRUE
  ELSE IF Head(s) # Head(t) THEN Ord(Head(s)) < Ord(Head(t))
  ELSE StrLt(Tail(s), Tail(t))

\* the elements of a sequence
Range(s) == {s[i] : i \in 1..Len(s)}

\* the subsequence of s whose elements satisfy the membership test
RECURSIVE Filter(_, _)
Filter(s, keep) ==
  IF s = <<>> THEN <<>>
  ELSE IF Head(s) \in keep THEN <<Head(s)>> \o Filter(Tail(s), keep)
  ELSE Filter(Tail(s), keep)

\* ------------------------------------------------------------------------
\* Config
\* ------------------------------------------------------------------------
DEFAULT_REGISTRY ==
  <<"r","e","g","i","s","t","r","y","-","1",".","d","o","c","k","e","r",".","i","o">>
DEFAULT_NAMESPACE == <<"l","i","b","r","a","r","y">>
LEGACY == <<"_","_","l","e","g","a","c","y","_","_">>
TRUE_STR == <<"t","r","u","e">>
ALWAYS == <<"A","l","w","a","y","s">>

\* ------------------------------------------------------------------------
\* ImageReference.parse
\* ------------------------------------------------------------------------
ValueError == [ok |-> FALSE, error |-> "ValueError"]

ImageReference(registry, repository, tag) ==
  [ok |-> TRUE, registry |-> registry, repository |-> repository, tag |-> tag]

parse_leftmost(image) ==
  LET parts == Split1(image, ":") IN
  IF Len(parts) # 2 THEN ValueError
  ELSE
    LET name == parts[1]
        tag  == parts[2]
    IN IF ~Contains(name, "/")
       THEN ImageReference(DEFAULT_REGISTRY, DEFAULT_NAMESPACE \o <<"/">> \o name, tag)
       ELSE LET first_part == Split(name, "/")[1] IN
            IF Contains(first_part, ".") \/ Contains(first_part, ":")
            THEN ImageReference(Split1(name, "/")[1], Split1(name, "/")[2], tag)
            ELSE ImageReference(DEFAULT_REGISTRY, name, tag)

parse_no_hub_default(image) ==
  LET parts == RSplit1(image, ":") IN
  IF Len(parts) # 2 THEN ValueError
  ELSE
    LET name == parts[1]
        tag  == parts[2]
    IN IF ~Contains(name, "/")
       THEN ImageReference(DEFAULT_REGISTRY, DEFAULT_NAMESPACE \o <<"/">> \o name, tag)
       ELSE ImageReference(Split1(name, "/")[1], Split1(name, "/")[2], tag)

parse(image) ==
  LET parts == RSplit1(image, ":") IN
  IF Len(parts) # 2 THEN ValueError
  ELSE
    LET name == parts[1]
        tag  == parts[2]
    IN IF ~Contains(name, "/")
       THEN ImageReference(DEFAULT_REGISTRY, DEFAULT_NAMESPACE \o <<"/">> \o name, tag)
       ELSE LET first_part == Split(name, "/")[1] IN
            IF Contains(first_part, ".") \/ Contains(first_part, ":")
            THEN ImageReference(Split1(name, "/")[1], Split1(name, "/")[2], tag)
            ELSE ImageReference(DEFAULT_REGISTRY, name, tag)

\* ------------------------------------------------------------------------
\* ContainerInfo
\* ------------------------------------------------------------------------
ContainerInfo(name, image, image_pull_policy) ==
  [name |-> name, image |-> image, image_pull_policy |-> image_pull_policy]

needs_pull_policy_update(c) == c.image_pull_policy # ALWAYS

\* ------------------------------------------------------------------------
\* DigestMap
\* ------------------------------------------------------------------------
EmptyMap == [n \in {} |-> <<>>]

\* Python's  d[k] = v
DictSet(d, k, v) == [n \in DOMAIN d \cup {k} |-> IF n = k THEN v ELSE d[n]]

\* Python's  d.get(k)
DictGet(d, k) == IF k \in DOMAIN d THEN d[k] ELSE None

SHA256_PREFIX == <<"s","h","a","2","5","6",":">>
SHA384_PREFIX == <<"s","h","a","3","8","4",":">>
SHA512_PREFIX == <<"s","h","a","5","1","2",":">>

\* the loop body of from_annotation, applied to the entries left to right
RECURSIVE from_annotation_entries(_, _)
from_annotation_entries(entries, digests) ==
  IF entries = <<>> THEN digests
  ELSE
    LET entry == Strip(Head(entries)) IN
    IF ~Contains(entry, ":")
    THEN from_annotation_entries(Tail(entries), digests)
    ELSE
      LET name   == Strip(Split1(entry, ":")[1])
          digest == Strip(Split1(entry, ":")[2])
      IN IF name # <<>> /\ digest # <<>>
         THEN from_annotation_entries(Tail(entries), DictSet(digests, name, digest))
         ELSE from_annotation_entries(Tail(entries), digests)

from_annotation_any_prefix(annotation_value) ==
  IF annotation_value = None \/ annotation_value = <<>> THEN EmptyMap
  ELSE IF \/ StartsWith(annotation_value, SHA256_PREFIX)
          \/ StartsWith(annotation_value, SHA384_PREFIX)
          \/ StartsWith(annotation_value, SHA512_PREFIX)
  THEN DictSet(EmptyMap, LEGACY, annotation_value)
  ELSE from_annotation_entries(Split(annotation_value, ","), EmptyMap)

from_annotation(annotation_value) ==
  IF annotation_value = None \/ annotation_value = <<>> THEN EmptyMap
  ELSE IF /\ \/ StartsWith(annotation_value, SHA256_PREFIX)
             \/ StartsWith(annotation_value, SHA384_PREFIX)
             \/ StartsWith(annotation_value, SHA512_PREFIX)
          /\ ~Contains(annotation_value, ",")
  THEN DictSet(EmptyMap, LEGACY, annotation_value)
  ELSE from_annotation_entries(Split(annotation_value, ","), EmptyMap)

\* Python's  sorted(...) on the keys of a dict
RECURSIVE SortedNames(_)
SortedNames(names) ==
  IF names = {} THEN <<>>
  ELSE LET least == CHOOSE n \in names : \A m \in names \ {n} : StrLt(n, m)
       IN <<least>> \o SortedNames(names \ {least})

to_annotation_descending(digests) ==
  LET names == SortedNames(DOMAIN digests)
      n     == Len(names)
  IN Join([i \in 1..n |-> names[n + 1 - i] \o <<":">> \o digests[names[n + 1 - i]]],
          <<",">>)

to_annotation(digests) ==
  LET names == SortedNames(DOMAIN digests) IN
  Join([i \in 1..Len(names) |-> names[i] \o <<":">> \o digests[names[i]]], <<",">>)

\* only names that are no longer tracked count as a change
has_changed_removed_only(self, current) ==
  \E name \in DOMAIN self : name \notin DOMAIN current /\ name # LEGACY

has_changed_one_way(self, current) ==
  \E name \in DOMAIN current : DictGet(self, name) # current[name]

has_changed(self, current) ==
  \/ \E name \in DOMAIN current : DictGet(self, name) # current[name]
  \/ \E name \in DOMAIN self : name \notin DOMAIN current /\ name # LEGACY

migrate_legacy_keep(self, primary_container) == self

migrate_legacy(self, primary_container) ==
  IF LEGACY \in DOMAIN self
  THEN DictSet(EmptyMap, primary_container, self[LEGACY])
  ELSE self

\* ------------------------------------------------------------------------
\* ContainerSelector.select
\* ------------------------------------------------------------------------
\* a workload's annotations: every field is a string or None (key absent)
Annotations(track, ignore, track_init, last_digest) ==
  [track |-> track, ignore |-> ignore, track_init |-> track_init,
   last_digest |-> last_digest]

\* {name.strip() for name in value.split(",") if name.strip()}
NameSet(value) ==
  {Strip(n) : n \in Range(Split(value, ","))} \ {<<>>}

RECURSIVE FilterByName(_, _, _)
FilterByName(containers, names, member) ==
  IF containers = <<>> THEN <<>>
  ELSE IF (Head(containers).name \in names) = member
  THEN <<Head(containers)>> \o FilterByName(Tail(containers), names, member)
  ELSE FilterByName(Tail(containers), names, member)

select_ignore_first(containers, annotations) ==
  LET track  == annotations.track
      ignore == annotations.ignore
  IN IF ignore # None /\ ignore # <<>>
     THEN FilterByName(containers, NameSet(ignore), FALSE)
     ELSE IF track # None /\ track # <<>>
     THEN FilterByName(containers, NameSet(track), TRUE)
     ELSE containers

select(containers, annotations) ==
  LET track  == annotations.track
      ignore == annotations.ignore
  IN IF track # None /\ track # <<>>
     THEN FilterByName(containers, NameSet(track), TRUE)
     ELSE IF ignore # None /\ ignore # <<>>
     THEN FilterByName(containers, NameSet(ignore), FALSE)
     ELSE containers

\* ------------------------------------------------------------------------
\* ImageRegistry
\* ------------------------------------------------------------------------
\* Python's  s.lower()
LowerChar(c) ==
  IF Ord(c) >= Ord("A") /\ Ord(c) <= Ord("Z") THEN AsciiOrder[Ord(c) + 27] ELSE c

Lower(s) == [i \in 1..Len(s) |-> LowerChar(s[i])]

\* Python's  s.strip('"')
RECURSIVE StripQuotes(_)
StripQuotes(s) ==
  IF s # <<>> /\ Head(s) = "\"" THEN StripQuotes(Tail(s))
  ELSE IF s # <<>> /\ s[Len(s)] = "\"" THEN StripQuotes(Upto(s, Len(s) - 1))
  ELSE s

BEARER == <<"b","e","a","r","e","r">>
REALM == <<"r","e","a","l","m">>

RECURSIVE _parse_auth_params(_, _)
_parse_auth_params(parts, params) ==
  IF parts = <<>> THEN params
  ELSE IF ~Contains(Head(parts), "=") THEN _parse_auth_params(Tail(parts), params)
  ELSE LET key   == Split1(Head(parts), "=")[1]
           value == Split1(Head(parts), "=")[2]
       IN _parse_auth_params(Tail(parts),
                             DictSet(params, Strip(key), StripQuotes(Strip(value))))

_parse_auth_header_any_scheme(header) ==
  IF header = None \/ header = <<>> THEN EmptyMap
  ELSE _parse_auth_params(
         Split(IF Contains(header, " ") THEN Split1(header, " ")[2] ELSE <<>>, ","),
         EmptyMap)

_parse_auth_header(header) ==
  IF header = None \/ header = <<>> THEN EmptyMap
  ELSE LET scheme     == Split1(header, " ")[1]
           params_str == IF Contains(header, " ") THEN Split1(header, " ")[2] ELSE <<>>
       IN IF Lower(scheme) # BEARER THEN EmptyMap
          ELSE _parse_auth_params(Split(params_str, ","), EmptyMap)

\* An HTTP exchange as the registry (or the token endpoint) answers it:
\* status 0 stands for a transport error or timeout (requests raises a
\* RequestException instead of returning a response).
Response(status, digest, www_authenticate) ==
  [status |-> status, digest |-> digest, www_authenticate |-> www_authenticate]

\* The token endpoint's answer: body is "object" (a JSON object with the
\* given token / access_token members, None when absent) or "not_object"
\* (valid JSON that is not an object).
TokenResponse(status, body, token, access_token) ==
  [status |-> status, body |-> body, token |-> token, access_token |-> access_token]

raises_for_status(response) == response.status >= 400 /\ response.status < 600

\* Result of _get_bearer_token: [raised, token, sent]; sent tells whether the
\* token request was made.
_get_bearer_token(auth_header, tok) ==
  IF auth_header = None \/ auth_header = <<>>
  THEN [raised |-> "", token |-> None, sent |-> FALSE]
  ELSE
    LET realm == DictGet(_parse_auth_header(auth_header), REALM) IN
    IF realm = None \/ realm = <<>>
    THEN [raised |-> "", token |-> None, sent |-> FALSE]
    ELSE IF tok.status = 0 \/ raises_for_status(tok)
    THEN [raised |-> "", token |-> None, sent |-> TRUE]
    ELSE IF tok.body # "object"
    THEN [raised |-> "AttributeError", token |-> None, sent |-> TRUE]
    ELSE [raised |-> "", sent |-> TRUE,
          token |-> IF tok.token # None /\ tok.token # <<>>
                    THEN tok.token ELSE tok.access_token]

ManifestRequest(authorization) == [kind |-> "manifest", authorization |-> authorization]
TokenRequest == [kind |-> "token", authorization |-> None]

\* Result of _fetch_manifest: [raised, response, requests]
_fetch_manifest(image_ref, beh) ==
  LET first == <<ManifestRequest(None)>> IN
  IF beh.r1.status = 0
  THEN [raised |-> "RequestException", response |-> beh.r1, requests |-> first]
  ELSE IF beh.r1.status # 401
  THEN [raised |-> IF raises_for_status(beh.r1) THEN "RequestException" ELSE "",
        response |-> beh.r1, requests |-> first]
  ELSE
    LET t    == _get_bearer_token(beh.r1.www_authenticate, beh.tok)
        reqs == IF t.sent THEN first \o <<TokenRequest>> ELSE first
    IN IF t.raised # ""
       THEN [raised |-> t.raised, response |-> beh.r1, requests |-> reqs]
       ELSE IF t.token = None \/ t.token = <<>>
       THEN [raised |-> "RequestException", response |-> beh.r1, requests |-> reqs]
       ELSE
         LET all == reqs \o <<ManifestRequest(t.token)>> IN
         IF beh.r2.status = 0 \/ raises_for_status(beh.r2)
         THEN [raised |-> "RequestException", response |-> beh.r2, requests |-> all]
         ELSE [raised |-> "", response |-> beh.r2, requests |-> all]

\* Result of get_digest: [raised, digest, requests]; raised is "" when a
\* digest is returned.
get_digest(image_ref, beh) ==
  LET m == _fetch_manifest(image_ref, beh) IN
  IF m.raised = "RequestException"
  THEN [raised |-> "DigestFetchError", digest |-> None, requests |-> m.requests]
  ELSE IF m.raised # ""
  THEN [raised |-> m.raised, digest |-> None, requests |-> m.requests]
  ELSE IF m.response.digest = None \/ m.response.digest = <<>>
  THEN [raised |-> "DigestFetchError", digest |-> None, requests |-> m.requests]
  ELSE [raised |-> "", digest |-> m.response.digest, requests |-> m.requests]

\* A request as it leaves the process: self.session.get merges the session's
\* default headers into the headers of the call; the token request is made
\* with requests.get, outside the session.
OnWire(session_auth, request) ==
  IF request.kind = "manifest" /\ request.authorization = None
  THEN [request EXCEPT !.authorization = session_auth]
  ELSE request

\* The session's Authorization default header after a resolution: the
\* headers, the bearer token included, live in a dict local to
\* _fetch_manifest and are handed to each request; nothing is stored.
session_after_caching(session_auth, result) ==
  LET last == result.requests[Len(result.requests)] IN
  IF last.authorization # None THEN last.authorization ELSE session_auth

session_after(session_auth, result) == session_auth

\* ------------------------------------------------------------------------
\* The workload, the registry and one reconcile invocation
\* ------------------------------------------------------------------------
VARIABLES
  pod_spec,           \* spec.template.spec: [containers, initContainers]
  metadata,           \* the workload's annotations (Annotations record)
  restartedAt,        \* the pod template's restart marker, 0 when absent
  FORCE_PULL_POLICY,  \* Config.FORCE_PULL_POLICY, read once at start-up
  now,                \* the clock, in seconds
  pc,                 \* "idle" or "fetch": position inside reconcile
  annotations,        \* reconcile's local: metadata.get("annotations")
  containers,         \* reconcile's local list of regular containers
  init_containers,    \* reconcile's local list of init containers
  tracked,            \* reconcile's local list of tracked containers
  i,                  \* _fetch_digests: index of the next container
  digests,            \* _fetch_digests: digests resolved so far
  failed,             \* _fetch_digests: names of the failed containers
  patch_calls,        \* patch documents sent by the current invocation
  outcome,            \* how the last invocation ended
  session_authorization,  \* the Authorization default header of the
                      \* registry's shared requests.Session, None when absent
  cluster,            \* the workloads of the cluster, by timer
  threads,            \* the timer handlers, one per workload: position,
                      \* registry answers received, patch calls made
  frames,             \* the locals of the running reconcile invocations
  call,               \* a call of a pure function: its name and arguments
  ret                 \* the value it returned

vars == <<pod_spec, metadata, restartedAt, FORCE_PULL_POLICY, now, pc,
          annotations, containers, init_containers, tracked, i, digests,
          failed, patch_calls, outcome, session_authorization,
          cluster, threads, frames, call, ret>>

reconcile_vars == <<pod_spec, metadata, restartedAt, FORCE_PULL_POLICY, now,
                    pc, annotations, containers, init_containers, tracked, i,
                    digests, failed, patch_calls, outcome>>

timer_vars == <<cluster, threads, frames>>

workload_vars == <<reconcile_vars, session_authorization, timer_vars>>

\* --- inputs -------------------------------------------------------------
NAME_SHA256 == <<"s","h","a","2","5","6">>
NAME_SHA384 == <<"s","h","a","3","8","4">>
NAME_SHA512 == <<"s","h","a","5","1","2">>
NAME_A == <<"a">>
NAME_B == <<"b">>
NAME_I == <<"i">>
IMAGE_TAGGED == <<"r", ":", "1">>
IMAGE_UNTAGGED == <<"r">>
DIGEST_X == SHA256_PREFIX \o <<"x">>
DIGEST_Y == SHA256_PREFIX \o <<"y">>
Digests == {DIGEST_X, DIGEST_Y}
TOKEN_T == <<"t">>
TOKEN_U == <<"u">>

\* a container entry of a pod spec; None marks an absent key
ContainerDict(name, image, imagePullPolicy) ==
  [name |-> name, image |-> image, imagePullPolicy |-> imagePullPolicy]

InitContainerDicts == {ContainerDict(NAME_I, IMAGE_TAGGED, None)}

\* container names are unique within a pod (the API server enforces it)
UniqueNames(cs) ==
  \A j, k \in 1..Len(cs) : (j # k /\ cs[j].name # None) => cs[j].name # cs[k].name

SeqsUpTo(S, n) == UNION {[1..m -> S] : m \in 0..n}

PodSpecs ==
  {[containers |-> cs, initContainers |-> ics] :
     cs \in {c \in SeqsUpTo({ContainerDict(NAME_A, IMAGE_TAGGED, None),
                             ContainerDict(NAME_A, IMAGE_UNTAGGED, None),
                             ContainerDict(NAME_B, IMAGE_TAGGED, ALWAYS),
                             ContainerDict(None, IMAGE_TAGGED, None)},
                            MaxContainers) : UniqueNames(c)},
     ics \in SeqsUpTo(InitContainerDicts, 1)}

\* WWW-Authenticate challenges
CHALLENGE_BEARER ==
  <<"B","e","a","r","e","r"," ","r","e","a","l","m","=","\"","u","\"",
    ",","s","e","r","v","i","c","e","=","\"","s","\"">>
CHALLENGE_NO_REALM ==
  <<"B","e","a","r","e","r"," ","s","e","r","v","i","c","e","=","\"","s","\"">>
CHALLENGE_LOWER ==
  <<"b","e","a","r","e","r"," ","r","e","a","l","m","=","\"","u","\"">>
CHALLENGE_BASIC ==
  <<"B","a","s","i","c"," ","r","e","a","l","m","=","\"","u","\"">>

NoResponse == Response(0, None, None)
NoTokenResponse == TokenResponse(0, "", None, None)

Behaviour(r1, tok, r2) == [r1 |-> r1, tok |-> tok, r2 |-> r2]

FinalResponses ==
  {Response(200, d, None) : d \in Digests} \cup
  {Response(200, None, None), Response(404, None, None), NoResponse}

TokenFailures ==
  {NoTokenResponse,
   TokenResponse(403, "", None, None),
   TokenResponse(200, "object", None, None),
   TokenResponse(200, "not_object", None, None)}

RegistryBehaviours ==
  {Behaviour(r1, NoTokenResponse, NoResponse) : r1 \in FinalResponses} \cup
  {Behaviour(Response(401, None, h), NoTokenResponse, NoResponse) :
     h \in {None, CHALLENGE_BASIC, CHALLENGE_NO_REALM}} \cup
  {Behaviour(Response(401, None, CHALLENGE_BEARER), tok, NoResponse) :
     tok \in TokenFailures} \cup
  {Behaviour(Response(401, None, CHALLENGE_BEARER),
             TokenResponse(200, "object", TOKEN_T, None), r2) :
     r2 \in FinalResponses \cup {Response(401, None, CHALLENGE_BEARER)}} \cup
  {Behaviour(Response(401, None, CHALLENGE_BEARER),
             TokenResponse(200, "object", <<>>, TOKEN_U),
             Response(200, DIGEST_Y, None))}

\* --- reconcile ----------------------------------------------------------
_parse_containers(container_list) ==
  LET valid == {c \in Range(container_list) : c.name # None /\ c.image # None}
      kept  == Filter(container_list, valid)
  IN [k \in 1..Len(kept) |->
        ContainerInfo(kept[k].name, kept[k].image, kept[k].imagePullPolicy)]

\* the patch document built by WorkloadManager.restart; pull_policy_names is
\* None when spec.template.spec is absent from the patch
BuildPatch_no_marker(digest_map, container_list, force_pull_policy, timestamp) ==
  [last_digest |-> to_annotation(digest_map),
   restartedAt |-> 0,
   pull_policy_names |-> None]

BuildPatch(digest_map, container_list, force_pull_policy, timestamp) ==
  LET needing == Filter(container_list,
                        {c \in Range(container_list) : needs_pull_policy_update(c)})
  IN [last_digest |-> to_annotation(digest_map),
      restartedAt |-> timestamp,
      pull_policy_names |->
        IF force_pull_policy /\ needing # <<>>
        THEN [k \in 1..Len(needing) |-> needing[k].name]
        ELSE None]

\* the API server applies the patch to the workload
ApplyPullPolicy(container_list, names) ==
  [k \in 1..Len(container_list) |->
     IF names # None /\ container_list[k].name \in Range(names)
     THEN [container_list[k] EXCEPT !.imagePullPolicy = ALWAYS]
     ELSE container_list[k]]

Init ==
  /\ pod_spec \in PodSpecs
  /\ metadata \in
       {Annotations(t, g, ti, ld) :
          t \in {None, NAME_A, <<" ", ",">>},
          g \in {None, NAME_I},
          ti \in {None, TRUE_STR, <<"T","r","u","e">>},
          ld \in {None, DIGEST_X,
                  NAME_A \o <<":">> \o DIGEST_X \o <<",">>
                    \o NAME_B \o <<":">> \o DIGEST_X}}
  /\ restartedAt = 0
  /\ FORCE_PULL_POLICY \in BOOLEAN
  /\ now = 0
  /\ pc = "idle"
  /\ annotations = Annotations(None, None, None, None)
  /\ containers = <<>>
  /\ init_containers = <<>>
  /\ tracked = <<>>
  /\ i = 0
  /\ digests = EmptyMap
  /\ failed = <<>>
  /\ patch_calls = <<>>
  /\ outcome = "none"
  /\ session_authorization = None
  /\ cluster = <<>>
  /\ threads = <<>>
  /\ frames = <<>>
  /\ call = [op |-> "none"]
  /\ ret = [done |-> FALSE]

\* reconcile, line 407: the test of the track-init-containers annotation
track_init_any_case(anns) ==
  anns.track_init # None /\ Lower(anns.track_init) = TRUE_STR

track_init_requested(anns) == anns.track_init = TRUE_STR

\* reconcile, lines 391-411: up to the call of _fetch_digests
ReconcileStart ==
  /\ pc = "idle"
  /\ now < MaxTicks
  /\ now' = now + 1
  /\ LET cs      == _parse_containers(pod_spec.containers)
         ics     == _parse_containers(pod_spec.initContainers)
         anns    == metadata
         sel     == select(cs, anns)
         \* select returns its argument itself when neither annotation is
         \* set, so that extending the tracked list extends containers too
         aliased == ~(anns.track # None /\ anns.track # <<>>)
                    /\ ~(anns.ignore # None /\ anns.ignore # <<>>)
         extend  == track_init_requested(anns)
         trk     == IF extend THEN sel \o ics ELSE sel
     IN /\ init_containers' = ics
        /\ patch_calls' = <<>>
        /\ digests' = EmptyMap
        /\ failed' = <<>>
        /\ IF cs = <<>>
           THEN /\ containers' = cs
                /\ annotations' = Annotations(None, None, None, None)
                /\ tracked' = <<>>
                /\ i' = 0
                /\ pc' = "idle"
                /\ outcome' = "no_containers"
           ELSE /\ containers' = IF aliased /\ extend THEN cs \o ics ELSE cs
                /\ annotations' = anns
                /\ tracked' = trk
                /\ IF trk = <<>>
                   THEN i' = 0 /\ pc' = "idle" /\ outcome' = "no_tracked"
                   ELSE i' = 1 /\ pc' = "fetch" /\ outcome' = "running"
  /\ UNCHANGED <<pod_spec, metadata, restartedAt, FORCE_PULL_POLICY,
                 session_authorization, timer_vars, call, ret>>

\* _fetch_digests, lines 467-476: one iteration of the loop
FetchDigest ==
  /\ pc = "fetch"
  /\ i <= Len(tracked)
  /\ \E beh \in RegistryBehaviours :
       LET container == tracked[i]
           image_ref == parse(container.image)
           result    == get_digest(image_ref, beh)
       IN IF ~image_ref.ok
          THEN /\ failed' = Append(failed, container.name)
               /\ UNCHANGED <<digests, pc, outcome, session_authorization>>
               /\ i' = i + 1
          ELSE /\ session_authorization' =
                    session_after(session_authorization, result)
               /\ IF result.raised = ""
                  THEN /\ digests' = DictSet(digests, container.name, result.digest)
                       /\ UNCHANGED <<failed, pc, outcome>>
                       /\ i' = i + 1
                  ELSE IF result.raised = "DigestFetchError"
                  THEN /\ failed' = Append(failed, container.name)
                       /\ UNCHANGED <<digests, pc, outcome>>
                       /\ i' = i + 1
                  ELSE \* an exception _fetch_digests does not catch leaves
                       \* reconcile
                       /\ pc' = "idle"
                       /\ outcome' = "raised"
                       /\ UNCHANGED <<digests, failed, i>>
  /\ UNCHANGED <<pod_spec, metadata, restartedAt, FORCE_PULL_POLICY, now,
                 annotations, containers, init_containers, tracked,
                 patch_calls, timer_vars, call, ret>>

\* what _fetch_digests returns, lines 478-484: None (is_none) when any
\* container failed, the DigestMap of the resolved digests otherwise
_fetch_digests_partial(resolved, failures) ==
  [is_none |-> FALSE, digests |-> resolved]

_fetch_digests_return(resolved, failures) ==
  [is_none |-> failures # <<>>, digests |-> resolved]

\* the stored map reconcile compares with, lines 419-428
StoredMap(anns, trk) ==
  LET stored == from_annotation(anns.last_digest) IN
  IF LEGACY \in DOMAIN stored /\ trk # <<>>
  THEN migrate_legacy(stored, trk[1].name)
  ELSE stored

\* _fetch_digests, lines 478-484, and reconcile, lines 415-442
ReconcileFinish ==
  /\ pc = "fetch"
  /\ i > Len(tracked)
  /\ pc' = "idle"
  /\ IF _fetch_digests_return(digests, failed).is_none
     THEN /\ outcome' = "skipped"
          /\ UNCHANGED <<pod_spec, metadata, restartedAt, patch_calls>>
     ELSE IF has_changed(StoredMap(annotations, tracked),
                         _fetch_digests_return(digests, failed).digests)
     THEN LET patch == BuildPatch(_fetch_digests_return(digests, failed).digests,
                                  containers, FORCE_PULL_POLICY, now) IN
          /\ patch_calls' = Append(patch_calls, patch)
          /\ metadata' = [metadata EXCEPT !.last_digest = patch.last_digest]
          /\ restartedAt' = patch.restartedAt
          /\ pod_spec' = [pod_spec EXCEPT !.containers =
                            ApplyPullPolicy(pod_spec.containers,
                                            patch.pull_policy_names)]
          /\ outcome' = "patched"
     ELSE /\ outcome' = "unchanged"
          /\ UNCHANGED <<pod_spec, metadata, restartedAt, patch_calls>>
  /\ UNCHANGED <<FORCE_PULL_POLICY, now, annotations, containers,
                 init_containers, tracked, i, digests, failed,
                 session_authorization, timer_vars, call, ret>>

Next == ReconcileStart \/ FetchDigest \/ ReconcileFinish

Spec == Init /\ [][Next]_vars

\* ------------------------------------------------------------------------
\* Calls of the pure functions on inputs drawn from bounded sets
\* ------------------------------------------------------------------------
NoWorkload ==
  /\ pod_spec = [containers |-> <<>>, initContainers |-> <<>>]
  /\ metadata = Annotations(None, None, None, None)
  /\ restartedAt = 0
  /\ FORCE_PULL_POLICY = FALSE
  /\ now = 0
  /\ pc = "idle"
  /\ annotations = Annotations(None, None, None, None)
  /\ containers = <<>>
  /\ init_containers = <<>>
  /\ tracked = <<>>
  /\ i = 0
  /\ digests = EmptyMap
  /\ failed = <<>>
  /\ patch_calls = <<>>
  /\ outcome = "none"
  /\ session_authorization = None
  /\ cluster = <<>>
  /\ threads = <<>>
  /\ frames = <<>>

Returned == ret.done

InitParse ==
  /\ NoWorkload
  /\ call \in {[op |-> "parse", image |-> s] :
                 s \in SeqsUpTo({"a", ".", ":", "/"}, MaxImageLen)}
  /\ ret = [done |-> FALSE]

CallParse ==
  /\ call.op = "parse"
  /\ ~ret.done
  /\ ret' = [done |-> TRUE, value |-> parse(call.image)]
  /\ UNCHANGED <<call, workload_vars>>

SpecParse == InitParse /\ [][CallParse]_vars

\* --- DigestMap.has_changed -----------------------------------------------
NameList == <<LEGACY, NAME_A, NAME_B, NAME_I, <<"c">>, <<"d">> >>
MapNames == {NameList[k] : k \in 1..MaxMapNames}
DigestMaps == UNION {[D -> {<<"x">>, <<"y">>}] : D \in SUBSET MapNames}

InitHasChanged ==
  /\ NoWorkload
  /\ call \in {[op |-> "has_changed", self |-> s, current |-> c] :
                 s \in DigestMaps, c \in DigestMaps}
  /\ ret = [done |-> FALSE]

CallHasChanged ==
  /\ call.op = "has_changed"
  /\ ~ret.done
  /\ ret' = [done |-> TRUE, value |-> has_changed(call.self, call.current)]
  /\ UNCHANGED <<call, workload_vars>>

SpecHasChanged == InitHasChanged /\ [][CallHasChanged]_vars

SelAnnotationValues ==
  {None, <<>>, <<" ">>, <<",">>, <<" ", ",", " ">>,
   NAME_A, NAME_B,
   <<"a", ",", "b">>, <<" ", "b", " ", ",", ",", "a", ",">>,
   <<"z">>}

InitSelect ==
  /\ NoWorkload
  /\ call \in {[op |-> "select", containers |-> cs,
                annotations |-> Annotations(t, g, None, None)] :
                 cs \in {c \in SeqsUpTo({ContainerInfo(NameList[k], IMAGE_TAGGED, None) :
                                            k \in 2..(MaxSelContainers + 1)},
                                         MaxSelContainers) : UniqueNames(c)},
                 t \in SelAnnotationValues, g \in SelAnnotationValues}
  /\ ret = [done |-> FALSE]

CallSelect ==
  /\ call.op = "select"
  /\ ~ret.done
  /\ ret' = [done |-> TRUE, value |-> select(call.containers, call.annotations)]
  /\ UNCHANGED <<call, workload_vars>>

SpecSelect == InitSelect /\ [][CallSelect]_vars

ResolutionBehaviours ==
  {Behaviour(Response(st, d, None), NoTokenResponse, NoResponse) :
     st \in {200, 304, 404}, d \in {None, <<>>, DIGEST_X}} \cup
  {Behaviour(NoResponse, NoTokenResponse, NoResponse)} \cup
  {Behaviour(Response(401, None, h),
             TokenResponse(200, "object", TOKEN_T, None),
             Response(200, DIGEST_Y, None)) : h \in {<<>>, CHALLENGE_LOWER}} \cup
  {Behaviour(Response(401, None, h), tok, r2) :
     h \in {None, CHALLENGE_BASIC, CHALLENGE_NO_REALM, CHALLENGE_BEARER},
     tok \in TokenFailures \cup
             {TokenResponse(200, "object", t, a) :
                t \in {None, <<>>, TOKEN_T}, a \in {None, TOKEN_U}},
     r2 \in {Response(st, d, None) :
               st \in {200, 304, 404}, d \in {None, DIGEST_Y}}
            \cup {Response(401, None, CHALLENGE_BEARER), NoResponse}}

InitGetDigest ==
  /\ NoWorkload
  /\ call = [op |-> "get_digest", n |-> 0, earlier_token |-> FALSE,
             beh |-> Behaviour(NoResponse, NoTokenResponse, NoResponse)]
  /\ ret = [done |-> FALSE]

CallGetDigest ==
  /\ call.op = "get_digest"
  /\ call.n < MaxResolutions
  /\ \E beh \in ResolutionBehaviours :
       LET result == get_digest(parse(IMAGE_TAGGED), beh) IN
       /\ call' = [op |-> "get_digest", n |-> call.n + 1, beh |-> beh,
                   earlier_token |->
                     call.earlier_token
                     \/ (ret.done /\ Len(ret.value.requests) = 3)]
       /\ ret' = [done |-> TRUE, value |-> result,
                  wire |-> [k \in 1..Len(result.requests) |->
                              OnWire(session_authorization, result.requests[k])]]
       /\ session_authorization' = session_after(session_authorization, result)
  /\ UNCHANGED <<reconcile_vars, timer_vars>>

SpecGetDigest == InitGetDigest /\ [][CallGetDigest]_vars

AnnotationStrings ==
  {Join(ps, <<>>) :
     ps \in SeqsUpTo({<<"a">>, <<"a", ":">>, <<":">>, <<",">>, <<" ">>,
                      SHA256_PREFIX}, MaxPieces)} \cup
  {None, SHA384_PREFIX \o <<"a">>, SHA512_PREFIX \o <<"a">>}

LiveMaps ==
  UNION {[D -> {DIGEST_X, <<" ", "x">>}] :
           D \in SUBSET {NAME_A, NAME_SHA256, NAME_SHA384, NAME_SHA512}}

InitCodec ==
  /\ NoWorkload
  /\ call \in
       {[op |-> "from_annotation", annotation_value |-> s] :
          s \in AnnotationStrings} \cup
       {[op |-> "to_annotation", self |-> m] : m \in DigestMaps} \cup
       {[op |-> "migrate_legacy", self |-> m, primary_container |-> p] :
          m \in DigestMaps, p \in MapNames \ {LEGACY}} \cup
       {[op |-> "round_trip", self |-> m] : m \in LiveMaps}
  /\ ret = [done |-> FALSE]

\* decode, then encode the result, then decode and encode once more
CallFromAnnotation ==
  /\ call.op = "from_annotation"
  /\ ~ret.done
  /\ LET decoded == from_annotation(call.annotation_value)
         encoded == to_annotation(decoded)
     IN ret' = [done |-> TRUE, value |-> decoded, encoded |-> encoded,
                reencoded |-> to_annotation(from_annotation(encoded))]
  /\ UNCHANGED <<call, workload_vars>>

CallToAnnotation ==
  /\ call.op = "to_annotation"
  /\ ~ret.done
  /\ ret' = [done |-> TRUE, value |-> to_annotation(call.self)]
  /\ UNCHANGED <<call, workload_vars>>

CallMigrateLegacy ==
  /\ call.op = "migrate_legacy"
  /\ ~ret.done
  /\ ret' = [done |-> TRUE,
             value |-> migrate_legacy(call.self, call.primary_container)]
  /\ UNCHANGED <<call, workload_vars>>

\* encode, then decode the result
CallRoundTrip ==
  /\ call.op = "round_trip"
  /\ ~ret.done
  /\ ret' = [done |-> TRUE, encoded |-> to_annotation(call.self),
             value |-> from_annotation(to_annotation(call.self))]
  /\ UNCHANGED <<call, workload_vars>>

NextCodec ==
  CallFromAnnotation \/ CallToAnnotation \/ CallMigrateLegacy \/ CallRoundTrip

SpecCodec == InitCodec /\ [][NextCodec]_vars

\* --- timers: reconcile invocations for several workloads ------------------
DEPLOYMENT == "deployment"
STATEFULSET == "statefulset"
DAEMONSET == "daemonset"
NAMESPACE == <<"n">>

\* WorkloadManager.restart, lines 363-369: the API method the patch goes to
patch_endpoint(kind) ==
  IF kind = DEPLOYMENT THEN "patch_namespaced_deployment"
  ELSE IF kind = STATEFULSET THEN "patch_namespaced_stateful_set"
  ELSE IF kind = DAEMONSET THEN "patch_namespaced_daemon_set"
  ELSE "none"

\* a workload object of the cluster
Workload(kind, name, namespace, spec, meta) ==
  [kind |-> kind, name |-> name, namespace |-> namespace,
   pod_spec |-> spec, metadata |-> meta, restartedAt |-> 0]

\* the arguments and locals of one reconcile invocation
Frame(kind, name, namespace, anns, cs, ics, trk, idx, resolved, failures) ==
  [kind |-> kind, name |-> name, namespace |-> namespace,
   annotations |-> anns, containers |-> cs, init_containers |-> ics,
   tracked |-> trk, i |-> idx, digests |-> resolved, failed |-> failures,
   events |-> <<>>]

\* what an invocation does that can be seen from outside, in order: the HTTP
\* requests of a container's resolution ("request"), the lines it logs
\* ("warning" for a failing container, "summary" of the failures, "info"), its
\* patch call ("patch")
Event(type, container, detail) ==
  [type |-> type, container |-> container, detail |-> detail]

RequestEvents(name, requests) ==
  [k \in 1..Len(requests) |-> Event("request", name, requests[k].kind)]

NoFrame ==
  Frame("none", None, None, Annotations(None, None, None, None),
        <<>>, <<>>, <<>>, 0, EmptyMap, <<>>)

NoPatch == [last_digest |-> None, restartedAt |-> 0, pull_policy_names |-> None]

\* reconcile without the return of line 398-399
reconcile_start_unguarded(kind, name, namespace, spec, meta) ==
  LET cs      == _parse_containers(spec.containers)
      ics     == _parse_containers(spec.initContainers)
      sel     == select(cs, meta)
      extend  == track_init_requested(meta)
      trk     == IF extend THEN sel \o ics ELSE sel
  IN [outcome |-> IF trk = <<>> THEN "no_tracked" ELSE "running",
      frame |-> Frame(kind, name, namespace, meta, cs, ics, trk,
                      IF trk = <<>> THEN 0 ELSE 1, EmptyMap, <<>>)]

\* reconcile, lines 391-411: up to the call of _fetch_digests
reconcile_start(kind, name, namespace, spec, meta) ==
  LET cs      == _parse_containers(spec.containers)
      ics     == _parse_containers(spec.initContainers)
      sel     == select(cs, meta)
      aliased == ~(meta.track # None /\ meta.track # <<>>)
                 /\ ~(meta.ignore # None /\ meta.ignore # <<>>)
      extend  == track_init_requested(meta)
      trk     == IF extend THEN sel \o ics ELSE sel
  IN IF cs = <<>>
     THEN [outcome |-> "no_containers",
           frame |-> Frame(kind, name, namespace,
                           Annotations(None, None, None, None),
                           cs, ics, <<>>, 0, EmptyMap, <<>>)]
     ELSE [outcome |-> IF trk = <<>> THEN "no_tracked" ELSE "running",
           frame |-> Frame(kind, name, namespace, meta,
                           IF aliased /\ extend THEN cs \o ics ELSE cs,
                           ics, trk, IF trk = <<>> THEN 0 ELSE 1,
                           EmptyMap, <<>>)]

\* _fetch_digests, lines 467-476: the end of one iteration of the loop,
\* given the parsed image reference and what get_digest did
fetch_digest_end(frame, name, image_ref, result) ==
  IF ~image_ref.ok
  THEN [raised |-> FALSE, called |-> FALSE, result |-> result,
        frame |-> [frame EXCEPT !.failed = Append(@, name), !.i = @ + 1,
                                !.events = Append(@, Event("warning", name, <<>>))]]
  ELSE IF result.raised = "DigestFetchError"
  THEN [raised |-> FALSE, called |-> TRUE, result |-> result,
        frame |-> [frame EXCEPT
                     !.failed = Append(@, name), !.i = @ + 1,
                     !.events = Append(@ \o RequestEvents(name, result.requests),
                                       Event("warning", name, <<>>))]]
  ELSE IF result.raised = ""
  THEN [raised |-> FALSE, called |-> TRUE, result |-> result,
        frame |-> [frame EXCEPT
                     !.digests = DictSet(@, name, result.digest), !.i = @ + 1,
                     !.events = @ \o RequestEvents(name, result.requests)]]
  ELSE [raised |-> TRUE, called |-> TRUE, result |-> result,
        frame |-> [frame EXCEPT
                     !.events = @ \o RequestEvents(name, result.requests)]]

\* _fetch_digests, lines 467-476: one iteration of the loop
fetch_digest(frame, beh) ==
  fetch_digest_end(frame, frame.tracked[frame.i].name,
                   parse(frame.tracked[frame.i].image),
                   get_digest(parse(frame.tracked[frame.i].image), beh))

\* _fetch_digests, lines 478-484, and reconcile, lines 415-442
reconcile_finish(frame, force_pull_policy, timestamp) ==
  LET current  == _fetch_digests_return(frame.digests, frame.failed)
      migrated == IF LEGACY \in DOMAIN from_annotation(frame.annotations.last_digest)
                     /\ frame.tracked # <<>>
                  THEN <<Event("info", None, "migrating")>> ELSE <<>>
  IN IF current.is_none
     THEN [outcome |-> "skipped", patched |-> FALSE, patch |-> NoPatch,
           events |-> Append(frame.events,
                             Event("summary", None,
                                   Join(frame.failed, <<",", " ">>)))]
     ELSE IF has_changed(StoredMap(frame.annotations, frame.tracked),
                         current.digests)
     THEN [outcome |-> "patched", patched |-> TRUE,
           patch |-> BuildPatch(current.digests, frame.containers,
                                force_pull_policy, timestamp),
           events |-> frame.events \o migrated
                        \o <<Event("info", None, "restarting"),
                            Event("patch", None, <<>>)>>]
     ELSE [outcome |-> "unchanged", patched |-> FALSE, patch |-> NoPatch,
           events |-> frame.events \o migrated]

\* the loop of _fetch_digests, run on the registry's successive answers
RECURSIVE _fetch_digests(_, _), _fetch_digests_next(_, _)
_fetch_digests(frame, answers) ==
  IF frame.i > Len(frame.tracked) \/ answers = <<>>
  THEN [raised |-> FALSE, frame |-> frame]
  ELSE _fetch_digests_next(fetch_digest(frame, Head(answers)), answers)

\* an exception that the loop does not catch ends it
_fetch_digests_next(r, answers) ==
  IF r.raised THEN r ELSE _fetch_digests(r.frame, Tail(answers))

\* one whole invocation, run on its own
reconcile_end(l, force_pull_policy, timestamp) ==
  IF l.raised
  THEN [outcome |-> "raised", patched |-> FALSE, patch |-> NoPatch,
        events |-> l.frame.events]
  ELSE reconcile_finish(l.frame, force_pull_policy, timestamp)

reconcile_from(s, force_pull_policy, timestamp, answers) ==
  IF s.outcome # "running"
  THEN [outcome |-> s.outcome, patched |-> FALSE, patch |-> NoPatch,
        events |-> s.frame.events]
  ELSE reconcile_end(_fetch_digests(s.frame, answers), force_pull_policy, timestamp)

reconcile(kind, name, namespace, spec, meta, force_pull_policy, timestamp, answers) ==
  reconcile_from(reconcile_start(kind, name, namespace, spec, meta),
                 force_pull_policy, timestamp, answers)

\* a call of the apps API client
PatchCall(endpoint, name, namespace, body) ==
  [endpoint |-> endpoint, name |-> name, namespace |-> namespace, body |-> body]

\* the API server applies a patch document to a workload
ApplyPatch(workload, body) ==
  [workload EXCEPT
     !.metadata = [@ EXCEPT !.last_digest = body.last_digest],
     !.restartedAt = body.restartedAt,
     !.pod_spec = [@ EXCEPT !.containers =
                     ApplyPullPolicy(@, body.pull_policy_names)]]

\* each call of reconcile has its own arguments and locals
invocation_frame_shared(w) == 1

invocation_frame(w) == w

Workloads == 1..MaxWorkloads

\* kind and name of the workloads the cluster may hold; two of them share a
\* name, two a kind
WorkloadIdentities ==
  <<[kind |-> DEPLOYMENT, name |-> NAME_A],
    [kind |-> STATEFULSET, name |-> NAME_A],
    [kind |-> DEPLOYMENT, name |-> NAME_B],
    [kind |-> DAEMONSET, name |-> NAME_A]>>

\* pod spec and annotations of a workload: one container whose digest was
\* observed before, or two containers never observed (at most one workload
\* of the cluster has two)
WorkloadContents ==
  {[pod_spec |-> [containers |-> <<ContainerDict(NAME_A, IMAGE_TAGGED, None)>>,
                  initContainers |-> <<>>],
    metadata |-> Annotations(None, None, None, NAME_A \o <<":">> \o DIGEST_X)],
   [pod_spec |-> [containers |-> <<ContainerDict(NAME_A, IMAGE_TAGGED, None),
                                   ContainerDict(NAME_B, IMAGE_TAGGED, ALWAYS)>>,
                  initContainers |-> <<>>],
    metadata |-> Annotations(None, None, None, None)]}

TimerBehaviours ==
  {Behaviour(Response(200, d, None), NoTokenResponse, NoResponse) : d \in Digests}
  \cup {Behaviour(Response(404, None, None), NoTokenResponse, NoResponse),
        Behaviour(Response(401, None, CHALLENGE_BEARER),
                  TokenResponse(200, "not_object", None, None), NoResponse)}

InitTimers ==
  /\ \E ids \in [Workloads -> 1..Len(WorkloadIdentities)],
        contents \in [Workloads -> WorkloadContents] :
       /\ \A v, w \in Workloads : v < w => ids[v] < ids[w]
       /\ \A v, w \in Workloads :
            (v # w /\ Len(contents[v].pod_spec.containers) > 1) =>
              Len(contents[w].pod_spec.containers) = 1
       /\ cluster = [w \in Workloads |->
                       Workload(WorkloadIdentities[ids[w]].kind,
                                WorkloadIdentities[ids[w]].name, NAMESPACE,
                                contents[w].pod_spec, contents[w].metadata)]
  /\ threads = [w \in Workloads |->
                  [pc |-> "idle", initial |-> cluster[w], overlapped |-> FALSE,
                   answers |-> <<>>, calls |-> <<>>, outcome |-> "none"]]
  /\ frames = [w \in Workloads |-> NoFrame]
  /\ session_authorization = None
  /\ FORCE_PULL_POLICY = TRUE
  /\ now = 0
  /\ pod_spec = [containers |-> <<>>, initContainers |-> <<>>]
  /\ metadata = Annotations(None, None, None, None)
  /\ restartedAt = 0
  /\ pc = "idle"
  /\ annotations = Annotations(None, None, None, None)
  /\ containers = <<>>
  /\ init_containers = <<>>
  /\ tracked = <<>>
  /\ i = 0
  /\ digests = EmptyMap
  /\ failed = <<>>
  /\ patch_calls = <<>>
  /\ outcome = "none"
  /\ call = [op |-> "none"]
  /\ ret = [done |-> FALSE]

timer_unchanged ==
  UNCHANGED <<pod_spec, metadata, restartedAt, FORCE_PULL_POLICY, pc,
              annotations, containers, init_containers, tracked, i, digests,
              failed, patch_calls, outcome, call, ret>>

\* a timer fires for workload w: the handler is handed the workload's spec
\* and metadata and enters reconcile
TimerStart(w) ==
  /\ threads[w].pc = "idle"
  /\ now' = now + 1
  /\ LET s == reconcile_start(cluster[w].kind, cluster[w].name,
                              cluster[w].namespace, cluster[w].pod_spec,
                              cluster[w].metadata)
     IN /\ frames' = [frames EXCEPT ![invocation_frame(w)] = s.frame]
        /\ threads' = [threads EXCEPT
                         ![w].pc = IF s.outcome = "running" THEN "fetch" ELSE "done",
                         ![w].outcome = s.outcome,
                         ![w].overlapped =
                           \E v \in Workloads \ {w} : threads[v].pc = "fetch"]
  /\ UNCHANGED <<cluster, session_authorization>>
  /\ timer_unchanged

\* the state after one iteration r of the loop in the handler of workload w
TimerFetched(w, beh, r) ==
  /\ frames' = [frames EXCEPT ![invocation_frame(w)] = r.frame]
  /\ threads' = [threads EXCEPT
                   ![w].answers = Append(@, beh),
                   ![w].pc = IF r.raised THEN "done" ELSE @,
                   ![w].outcome = IF r.raised THEN "raised" ELSE @]
  /\ session_authorization' =
       IF r.called THEN session_after(session_authorization, r.result)
       ELSE session_authorization

\* the handler of workload w resolves the digest of its next container
TimerFetch(w) ==
  /\ threads[w].pc = "fetch"
  /\ frames[invocation_frame(w)].i <= Len(frames[invocation_frame(w)].tracked)
  /\ \E beh \in TimerBehaviours :
       TimerFetched(w, beh, fetch_digest(frames[invocation_frame(w)], beh))
  /\ UNCHANGED <<cluster, now>>
  /\ timer_unchanged

\* the handler of workload w leaves _fetch_digests, compares and patches
TimerFinish(w) ==
  /\ threads[w].pc = "fetch"
  /\ frames[invocation_frame(w)].i > Len(frames[invocation_frame(w)].tracked)
  /\ LET frame  == frames[invocation_frame(w)]
         r      == reconcile_finish(frame, FORCE_PULL_POLICY, now)
         sent   == PatchCall(patch_endpoint(frame.kind), frame.name,
                             frame.namespace, r.patch)
     IN /\ threads' = [threads EXCEPT
                         ![w].pc = "done",
                         ![w].outcome = r.outcome,
                         ![w].calls = IF r.patched THEN Append(@, sent) ELSE @]
        /\ cluster' =
             [v \in Workloads |->
                IF /\ r.patched
                   /\ patch_endpoint(cluster[v].kind) = sent.endpoint
                   /\ cluster[v].name = sent.name
                   /\ cluster[v].namespace = sent.namespace
                THEN ApplyPatch(cluster[v], sent.body)
                ELSE cluster[v]]
  /\ UNCHANGED <<frames, now, session_authorization>>
  /\ timer_unchanged

NextTimers == \E w \in Workloads : TimerStart(w) \/ TimerFetch(w) \/ TimerFinish(w)

SpecTimers == InitTimers /\ [][NextTimers]_vars

\* --- reconcile: one invocation of a workload, and the next one -------------
MaxRunContainers == 2

RunPodSpecs ==
  {[containers |-> cs, initContainers |-> ics] :
     cs \in {c \in SeqsUpTo({ContainerDict(NAME_A, IMAGE_TAGGED, None),
                             ContainerDict(NAME_B, IMAGE_UNTAGGED, ALWAYS),
                             ContainerDict(None, IMAGE_TAGGED, None),
                             ContainerDict(NAME_SHA256, IMAGE_TAGGED, None)},
                            MaxRunContainers) : UniqueNames(c)}
            \cup {<<ContainerDict(NAME_SHA384, IMAGE_TAGGED, None)>>,
                  <<ContainerDict(NAME_SHA512, IMAGE_TAGGED, None)>>},
     ics \in SeqsUpTo(InitContainerDicts, 1)}

\* what the registry does for one container: the digest at once
RunDefault == Behaviour(Response(200, DIGEST_X, None), NoTokenResponse, NoResponse)

\* one behaviour per tracked container, at most one of them not the default:
\* another digest, a request that times out, the digest after a token, not
\* found, a refused token, a token body that is not an object
RunAnswers ==
  {[k \in 1..(MaxRunContainers + 1) |-> IF k = at THEN beh ELSE RunDefault] :
     at \in 1..(MaxRunContainers + 1),
     beh \in {RunDefault,
              Behaviour(Response(200, DIGEST_Y, None), NoTokenResponse, NoResponse),
              Behaviour(NoResponse, NoTokenResponse, NoResponse),
              Behaviour(Response(401, None, CHALLENGE_BEARER),
                        TokenResponse(200, "object", TOKEN_T, None),
                        Response(200, DIGEST_X, None)),
              Behaviour(Response(404, None, None), NoTokenResponse, NoResponse),
              Behaviour(Response(401, None, CHALLENGE_BEARER),
                        TokenResponse(403, "", None, None), NoResponse),
              Behaviour(Response(401, None, CHALLENGE_BEARER),
                        TokenResponse(200, "not_object", None, None), NoResponse)}}

InitReconcile ==
  /\ NoWorkload
  /\ call \in {[op |-> "reconcile",
                workload |-> Workload(DEPLOYMENT, NAME_A, NAMESPACE, spec,
                                      Annotations(t, g, ti, ld)),
                answers |-> answers] :
                 spec \in RunPodSpecs,
                 t \in {None, <<"z">>}, g \in {None, NAME_A},
                 ti \in {None, TRUE_STR},
                 ld \in {None, <<>>, NAME_A \o <<":">> \o DIGEST_X},
                 answers \in RunAnswers}
  /\ ret = [done |-> FALSE]

\* the timer handler's call, lines 514-550, with FORCE_PULL_POLICY set
ReconcileWorkload(w, timestamp, answers) ==
  reconcile(w.kind, w.name, w.namespace, w.pod_spec, w.metadata,
            TRUE, timestamp, answers)

\* the result of the call, and the workload as the API server holds it after
Reconciled(w, result) ==
  [done |-> TRUE, again |-> FALSE, value |-> result,
   stored |-> IF result.patched THEN ApplyPatch(w, result.patch) ELSE w]

CallReconcile ==
  /\ call.op = "reconcile"
  /\ ~ret.done
  /\ ret' = Reconciled(call.workload,
                        ReconcileWorkload(call.workload, 1, call.answers))
  /\ UNCHANGED <<call, workload_vars>>

\* the next timer tick for the patched workload: same pod spec, same policy
\* annotations, the registry answers as before
CallReconcileAgain ==
  /\ call.op = "reconcile"
  /\ ret.done
  /\ ~ret.again
  /\ ret.value.patched
  /\ ret' = [done |-> TRUE, again |-> TRUE, value |-> ret.value,
             stored |-> ret.stored,
             next |-> ReconcileWorkload(ret.stored, 2, call.answers)]
  /\ UNCHANGED <<call, workload_vars>>

NextReconcile == CallReconcile \/ CallReconcileAgain

SpecReconcile == InitReconcile /\ [][NextReconcile]_vars

\* ------------------------------------------------------------------------
\* Properties
\* ------------------------------------------------------------------------
\* an invocation has ended after every tracked container resolved
AllResolved ==
  pc = "idle" /\ tracked # <<>> /\ i > Len(tracked) /\ failed = <<>>

TrackedNames == {tracked[k].name : k \in 1..Len(tracked)}

\* C1: all-or-nothing.  If image parsing or digest resolution failed for at
\* least one tracked container of the invocation, the invocation makes no
\* patch call and the workload's last-digest annotation still has the value
\* it had when the invocation started, whatever the others resolved to.
C1_AllOrNothing ==
  (failed # <<>> \/ outcome = "raised") =>
     /\ patch_calls = <<>>
     /\ metadata.last_digest = annotations.last_digest

\* a skipped invocation in which another container did resolve, to a digest
\* that differs from the stored one
C1_Witness ==
  /\ pc = "idle"
  /\ outcome = "skipped"
  /\ Len(tracked) >= 2
  /\ \E n \in DOMAIN digests :
       DictGet(StoredMap(annotations, tracked), n) # digests[n]

\* C2: when every tracked container resolved, reconcile makes exactly one
\* patch call if the stored map (after legacy migration) and the resolved map
\* differ in the two-way sense, and none otherwise; equal maps are never
\* patched and a tracked container whose digest differs from the stored one
\* always is.
C2_PatchIffChanged ==
  AllResolved =>
    LET stored  == StoredMap(annotations, tracked)
        changed == \/ \E n \in DOMAIN digests :
                        n \notin DOMAIN stored \/ stored[n] # digests[n]
                   \/ \E n \in DOMAIN stored \ {LEGACY} : n \notin DOMAIN digests
    IN /\ Len(patch_calls) = IF changed THEN 1 ELSE 0
       /\ (DOMAIN stored = DOMAIN digests
           /\ \A n \in DOMAIN stored : stored[n] = digests[n])
            => patch_calls = <<>>
       /\ (\E n \in TrackedNames : n \in DOMAIN stored /\ stored[n] # digests[n])
            => Len(patch_calls) = 1

\* a patched workload whose stored digest of a tracked container was replaced
C2_Witness ==
  /\ AllResolved
  /\ Len(patch_calls) = 1
  /\ \E n \in TrackedNames :
       /\ n \in DOMAIN from_annotation(annotations.last_digest)
       /\ from_annotation(annotations.last_digest)[n] # digests[n]

\* C3: every patch carries both the restart marker (the current timestamp)
\* and a last-digest annotation equal to the encoding of the map from
\* exactly the tracked containers' names to the digests resolved in this
\* invocation; the workload receives both together.
C3_PatchDocument ==
  \A k \in 1..Len(patch_calls) :
    LET patch == patch_calls[k]
        M     == [n \in TrackedNames |-> digests[n]]
    IN /\ DOMAIN digests = TrackedNames
       /\ \A n \in TrackedNames : digests[n] \in Digests
       /\ patch.last_digest = to_annotation(M)
       /\ patch.restartedAt = now
       /\ patch.restartedAt > 0
       /\ metadata.last_digest = patch.last_digest
       /\ restartedAt = patch.restartedAt

\* a patch for two tracked containers that resolved to different digests
C3_Witness ==
  /\ Len(patch_calls) = 1
  /\ Len(tracked) = 2
  /\ digests[tracked[1].name] # digests[tracked[2].name]

\* C5: a stored annotation that is a bare legacy digest D is compared as
\* {first tracked name -> D}: a single tracked container resolving to D is
\* not patched and the annotation stays D; any other resolution, or more
\* than one tracked container, is patched with the name-keyed encoding of
\* the resolved map, which has no legacy entry.
C5_LegacyMigration ==
  (AllResolved /\ annotations.last_digest \in Digests) =>
    LET D     == annotations.last_digest
        first == tracked[1].name
    IN /\ DOMAIN StoredMap(annotations, tracked) = {first}
       /\ StoredMap(annotations, tracked)[first] = D
       /\ IF Len(tracked) = 1 /\ digests[first] = D
          THEN patch_calls = <<>> /\ metadata.last_digest = D
          ELSE /\ Len(patch_calls) = 1
               /\ DOMAIN digests = TrackedNames
               /\ LEGACY \notin DOMAIN digests
               /\ patch_calls[1].last_digest = to_annotation(digests)
               /\ metadata.last_digest = patch_calls[1].last_digest

\* a legacy workload with one tracked container that resolved to D
C5_Witness ==
  /\ AllResolved
  /\ annotations.last_digest \in Digests
  /\ Len(tracked) = 1
  /\ digests[tracked[1].name] = annotations.last_digest
  /\ outcome = "unchanged"

\* C8: the tracked set is select(containers, policy), followed by all init
\* containers exactly when track-init-containers is "true"; the init
\* containers are not filtered by the track or ignore lists, and the option
\* adds or removes no regular container.
C8_TrackedSet ==
  (pc = "fetch" \/ outcome = "no_tracked") =>
    LET cs       == _parse_containers(pod_spec.containers)
        ics      == _parse_containers(pod_spec.initContainers)
        regular  == {cs[k].name : k \in 1..Len(cs)}
        selected == select(cs, metadata)
    IN /\ tracked = IF metadata.track_init = TRUE_STR
                    THEN selected \o ics ELSE selected
       /\ FilterByName(tracked, regular, TRUE) = selected
       /\ FilterByName(tracked, regular, FALSE) =
            IF metadata.track_init = TRUE_STR THEN ics ELSE <<>>

\* init containers appended although the ignore list names them or the
\* track list does not
C8_Witness ==
  /\ pc = "fetch"
  /\ metadata.track_init = TRUE_STR
  /\ init_containers # <<>>
  /\ \/ metadata.ignore = NAME_I /\ metadata.track = None
     \/ metadata.track = NAME_A
  /\ \E k \in 1..Len(tracked) : tracked[k].name = NAME_I

\* C4: has_changed is a two-way diff: true exactly when a name of current
\* has a different or missing digest in stored or a non-legacy name of
\* stored is absent from current; false exactly when stored without the
\* legacy key equals current (current's legacy key being dropped only if
\* stored binds it to the same digest).
C4_TwoWayDiff ==
  (Returned /\ call.op = "has_changed") =>
    LET stored  == call.self
        current == call.current
        agree   == /\ LEGACY \in DOMAIN current
                   /\ LEGACY \in DOMAIN stored
                   /\ stored[LEGACY] = current[LEGACY]
        s0      == [n \in DOMAIN stored \ {LEGACY} |-> stored[n]]
        c0      == [n \in IF agree THEN DOMAIN current \ {LEGACY}
                          ELSE DOMAIN current |-> current[n]]
    IN /\ ret.value =
            (\/ \E n \in DOMAIN current :
                  n \notin DOMAIN stored \/ stored[n] # current[n]
             \/ \E n \in DOMAIN stored \ {LEGACY} : n \notin DOMAIN current)
       /\ (ret.value = FALSE) <=>
            (DOMAIN s0 = DOMAIN c0 /\ \A n \in DOMAIN s0 : s0[n] = c0[n])

\* a removal only: current is stored less one non-legacy name
C4_Witness ==
  /\ Returned
  /\ call.op = "has_changed"
  /\ ret.value = TRUE
  /\ DOMAIN call.current # {}
  /\ \A n \in DOMAIN call.current :
       n \in DOMAIN call.self /\ call.self[n] = call.current[n]

\* C6: with a non-empty track list the result is exactly the input
\* containers whose name is in the track list, in input order, and is the
\* same for every ignore list.
C6_TrackListWins ==
  (Returned /\ call.op = "select"
     /\ call.annotations.track # None
     /\ NameSet(call.annotations.track) # {}) =>
    LET input == call.containers
        kept  == {k \in 1..Len(input) :
                    input[k].name \in NameSet(call.annotations.track)}
    IN /\ Len(ret.value) = Cardinality(kept)
       /\ \A k \in kept :
            ret.value[1 + Cardinality({j \in kept : j < k})] = input[k]
       /\ \A g \in SelAnnotationValues :
            select(input, [call.annotations EXCEPT !.ignore = g]) = ret.value

\* the track list and the ignore list both name a selected container
C6_Witness ==
  /\ Returned
  /\ call.op = "select"
  /\ call.annotations.track # None
  /\ call.annotations.ignore # None
  /\ ret.value # <<>>
  /\ ret.value[1].name \in NameSet(call.annotations.track)
  /\ ret.value[1].name \in NameSet(call.annotations.ignore)

\* C7: whenever the track annotation yields no names, selection falls
\* through: the containers not named by a non-empty ignore set, or the whole
\* input when the ignore set is empty too; the output is always a
\* subsequence of the input.
C7_FallThrough ==
  (Returned /\ call.op = "select") =>
    LET input  == call.containers
        track  == IF call.annotations.track = None THEN {}
                  ELSE NameSet(call.annotations.track)
        ignore == IF call.annotations.ignore = None THEN {}
                  ELSE NameSet(call.annotations.ignore)
        kept   == {k \in 1..Len(input) : input[k].name \notin ignore}
    IN /\ track = {} =>
            /\ Len(ret.value) = Cardinality(kept)
            /\ \A k \in kept :
                 ret.value[1 + Cardinality({j \in kept : j < k})] = input[k]
       /\ \E idx \in SUBSET (1..Len(input)) :
            /\ Len(ret.value) = Cardinality(idx)
            /\ \A k \in idx :
                 ret.value[1 + Cardinality({j \in idx : j < k})] = input[k]

\* C9 as stated: an image name:tag without a registry host parses to the
\* default registry and a repository that starts with the default
\* namespace and "/".
C9_AlwaysDefaultNamespace ==
  (Returned /\ call.op = "parse") =>
    \A c \in 1..Len(call.image) :
      LET name  == Upto(call.image, c - 1)
          tag   == From(call.image, c + 1)
          first == IF Contains(name, "/") THEN Upto(name, Find(name, "/") - 1)
                   ELSE name
      IN (/\ call.image[c] = ":"
          /\ ~Contains(tag, ":")
          /\ (~Contains(name, "/")
              \/ (~Contains(first, ".") /\ ~Contains(first, ":")))) =>
           /\ ret.value.ok
           /\ ret.value.registry = DEFAULT_REGISTRY
           /\ StartsWith(ret.value.repository, DEFAULT_NAMESPACE \o <<"/">>)

\* C9 amended: an image name:tag without a registry host parses to the
\* default registry; the repository is the default namespace, "/" and the
\* name when the name has no "/", and the name unchanged when it has one.
C9_HubDefaults ==
  (Returned /\ call.op = "parse") =>
    \A c \in 1..Len(call.image) :
      LET name  == Upto(call.image, c - 1)
          tag   == From(call.image, c + 1)
          first == IF Contains(name, "/") THEN Upto(name, Find(name, "/") - 1)
                   ELSE name
      IN (/\ call.image[c] = ":"
          /\ ~Contains(tag, ":")
          /\ (~Contains(name, "/")
              \/ (~Contains(first, ".") /\ ~Contains(first, ":")))) =>
           /\ ret.value.ok
           /\ ret.value.registry = DEFAULT_REGISTRY
           /\ ret.value.tag = tag
           /\ ret.value.repository =
                IF Contains(name, "/") THEN name
                ELSE DEFAULT_NAMESPACE \o <<"/">> \o name

\* a namespaced Docker Hub repository such as a/a:a
C9_Witness ==
  /\ Returned
  /\ call.op = "parse"
  /\ call.image = <<"a", "/", "a", ":", "a">>
  /\ ret.value.ok
  /\ ret.value.repository = <<"a", "/", "a">>

\* C10: an image host/path:tag whose first segment contains "." or ":"
\* parses to registry = that whole segment (port included), repository = the
\* rest of the name after the first "/", tag = the text after the rightmost
\* ":"; the port colon is never taken for the tag separator.
C10_ExplicitRegistry ==
  (Returned /\ call.op = "parse") =>
    \A s \in 1..Len(call.image), c \in 1..Len(call.image) :
      LET host == Upto(call.image, s - 1)
          path == SubSeq(call.image, s + 1, c - 1)
          tag  == From(call.image, c + 1)
      IN (/\ s < c
          /\ call.image[s] = "/"
          /\ call.image[c] = ":"
          /\ ~Contains(host, "/")
          /\ Contains(host, ".") \/ Contains(host, ":")
          /\ ~Contains(tag, ":")) =>
           /\ ret.value.ok
           /\ ret.value.registry = host
           /\ ret.value.repository = path
           /\ ret.value.tag = tag

\* a registry with a port: a:a/a:a
C10_Witness ==
  /\ Returned
  /\ call.op = "parse"
  /\ call.image = <<"a", ":", "a", "/", "a", ":", "a">>
  /\ ret.value.ok
  /\ ret.value.registry = <<"a", ":", "a">>

\* C11: parse fails, returning no ImageReference, for every image string
\* without a tag separator: a string with no ":" at all, and a string whose
\* only ":" is the port of the registry host in front of the first "/".
C11_NoTagFails ==
  (Returned /\ call.op = "parse") =>
    LET last == IF Contains(call.image, "/")
                THEN From(call.image, RFind(call.image, "/") + 1)
                ELSE call.image
    IN ~Contains(last, ":") => ~ret.value.ok

\* the manifest response a resolution ended on: the answer to the second
\* manifest request when one was sent, to the first otherwise
FinalResponse ==
  IF Len(ret.value.requests) = 3 THEN call.beh.r2 ELSE call.beh.r1

\* C12: get_digest returns a digest d only when the final manifest response
\* has a success status and a non-empty Docker-Content-Digest header equal to
\* d; a success response without the header, any non-success final status and
\* any transport error or timeout end the resolution with DigestFetchError,
\* never with a returned value.
C12_DigestOnlyFromSuccess ==
  (Returned /\ call.op = "get_digest") =>
    LET success == FinalResponse.status >= 200 /\ FinalResponse.status < 300
        present == FinalResponse.digest # None /\ FinalResponse.digest # <<>>
    IN /\ ret.value.raised = "" =>
            success /\ present /\ ret.value.digest = FinalResponse.digest
       /\ ~(success /\ present) => ret.value.raised = "DigestFetchError"

\* the challenge of a 401 answer cannot be satisfied: it names no realm, or
\* the token endpoint fails, or its answer holds no token
Unsatisfiable(beh) ==
  LET realm == DictGet(_parse_auth_header(beh.r1.www_authenticate), REALM) IN
  \/ realm = None \/ realm = <<>>
  \/ beh.tok.status = 0 \/ raises_for_status(beh.tok)
  \/ /\ beh.tok.body = "object"
     /\ beh.tok.token = None \/ beh.tok.token = <<>>
     /\ beh.tok.access_token = None \/ beh.tok.access_token = <<>>

\* C13: when the registry answers 401 with a challenge that cannot be
\* satisfied, get_digest fails with AuthenticationError, an error other than
\* DigestFetchError.
C13_AuthenticationError ==
  (Returned /\ call.op = "get_digest"
     /\ call.beh.r1.status = 401 /\ Unsatisfiable(call.beh)) =>
    ret.value.raised = "AuthenticationError"

\* the token the token endpoint's answer holds, None when it holds none
TokenArrived(tok) ==
  IF tok.status = 0 \/ raises_for_status(tok) \/ tok.body # "object" THEN None
  ELSE IF tok.token # None /\ tok.token # <<>> THEN tok.token
  ELSE IF tok.access_token # None /\ tok.access_token # <<>> THEN tok.access_token
  ELSE None

\* C14: the requests of one resolution are manifest; or manifest, token; or
\* manifest, token, manifest.  The first manifest request carries no
\* Authorization header, whatever tokens earlier resolutions obtained; the
\* token request follows a 401 answer only; the second manifest request
\* follows a token answer holding a token only, carries that token, and is
\* the last request even when it is answered 401 again.
C14_RequestSequence ==
  (Returned /\ call.op = "get_digest") =>
    LET wire == ret.wire IN
    /\ Len(wire) \in 1..3
    /\ wire[1].kind = "manifest"
    /\ wire[1].authorization = None
    /\ Len(wire) >= 2 =>
         /\ wire[2].kind = "token"
         /\ call.beh.r1.status = 401
    /\ Len(wire) = 3 =>
         /\ wire[3].kind = "manifest"
         /\ TokenArrived(call.beh.tok) # None
         /\ wire[3].authorization = TokenArrived(call.beh.tok)

\* a resolution that follows one that obtained a token, is itself answered
\* 401 on its authenticated request, and stops there
C14_Witness ==
  /\ Returned
  /\ call.op = "get_digest"
  /\ call.earlier_token
  /\ Len(ret.wire) = 3
  /\ ret.wire[1].authorization = None
  /\ ret.wire[3].authorization = TOKEN_U
  /\ call.beh.r2.status = 401

\* C15: with the force-pull-policy flag on, the patch sets the pull policy
\* "Always" for exactly those containers of the workload's regular container
\* list, tracked or not, whose pull policy is absent or other than "Always";
\* the patch has no pod-spec part when no container needs it and whenever
\* the flag is off.
C15_PullPolicyOverride ==
  [][(patch_calls' # patch_calls /\ patch_calls' # <<>>) =>
       LET regular == _parse_containers(pod_spec.containers)
           needing == Filter(regular,
                             {c \in Range(regular) :
                                \/ c.image_pull_policy = None
                                \/ c.image_pull_policy # ALWAYS})
           names   == [k \in 1..Len(needing) |-> needing[k].name]
       IN patch_calls'[Len(patch_calls')].pull_policy_names =
            IF FORCE_PULL_POLICY /\ needing # <<>> THEN names ELSE None]_vars

\* the name of an entry name:digest of an annotation value
EntryName(entry) ==
  IF Contains(entry, ":") THEN Upto(entry, Find(entry, ":") - 1) ELSE entry

\* the annotation value has an entry named by the legacy sentinel
HasLegacyEntry(value) ==
  \E k \in 1..Len(Split(value, ",")) :
    /\ Contains(Split(value, ",")[k], ":")
    /\ EntryName(Split(value, ",")[k]) = LEGACY

\* C17: the legacy sentinel never appears in serialized output: no value
\* that to_annotation produces has an entry named by the sentinel.
C17_NoLegacyInOutput ==
  /\ (Returned /\ call.op = "to_annotation") => ~HasLegacyEntry(ret.value)
  /\ (Returned /\ call.op = "from_annotation") => ~HasLegacyEntry(ret.encoded)

\* the annotation value has the legacy form: a bare digest
LegacyForm(value) ==
  /\ \/ StartsWith(value, SHA256_PREFIX)
     \/ StartsWith(value, SHA384_PREFIX)
     \/ StartsWith(value, SHA512_PREFIX)
  /\ ~Contains(value, ",")

\* the annotation value follows the documented format
\* "container1:sha256:abc,container2:sha256:def": entries name:digest
\* separated by ",", with non-empty unpadded names and digests, and no name
\* twice
WellFormed(value) ==
  LET entries == Split(value, ",") IN
  /\ \A k \in 1..Len(entries) :
       LET entry  == entries[k]
           digest == From(entry, Find(entry, ":") + 1)
       IN /\ Contains(entry, ":")
          /\ EntryName(entry) # <<>> /\ Strip(EntryName(entry)) = EntryName(entry)
          /\ digest # <<>> /\ Strip(digest) = digest
  /\ \A j, k \in 1..Len(entries) :
       j # k => EntryName(entries[j]) # EntryName(entries[k])

\* the entries of an annotation value come in ascending order of their names
Ascending(value) ==
  LET entries == Split(value, ",") IN
  \A k \in 1..(Len(entries) - 1) :
    StrLt(EntryName(entries[k]), EntryName(entries[k + 1]))

\* C18: the codec is idempotent on its own output: for every well-formed
\* annotation value s not of the legacy form, encoding the decoding of
\* encode(decode(s)) gives encode(decode(s)) again.  to_annotation lists one
\* name:digest entry per name of the map, in ascending order of the names,
\* whatever the order of the entries in the value the map was decoded from;
\* the empty map is encoded as the empty string.
C18_CodecIdempotent ==
  /\ (Returned /\ call.op = "from_annotation"
        /\ call.annotation_value # None /\ call.annotation_value # <<>>
        /\ WellFormed(call.annotation_value)
        /\ ~LegacyForm(call.annotation_value)) =>
       /\ ret.reencoded = ret.encoded
       /\ Ascending(ret.encoded)
  /\ (Returned /\ call.op = "to_annotation") =>
       LET entries == Split(ret.value, ",") IN
       IF DOMAIN call.self = {} THEN ret.value = <<>>
       ELSE /\ Len(entries) = Cardinality(DOMAIN call.self)
            /\ \A k \in 1..Len(entries) :
                 \E name \in DOMAIN call.self :
                   entries[k] = name \o <<":">> \o call.self[name]
            /\ Ascending(ret.value)

\* the value sha256:a,a:a, whose entries come in descending order and whose
\* first name is a digest algorithm
C18_Witness ==
  /\ Returned
  /\ call.op = "from_annotation"
  /\ call.annotation_value = SHA256_PREFIX \o <<"a", ",", "a", ":", "a">>
  /\ ret.encoded = <<"a", ":", "a", ",">> \o SHA256_PREFIX \o <<"a">>
  /\ ret.reencoded = ret.encoded

\* an entry of an annotation value that from_annotation keeps: it has a ":"
\* and, split at the first one, a name and a digest that are not empty once
\* trimmed
KeptEntry(entry) ==
  /\ Contains(entry, ":")
  /\ Strip(EntryName(entry)) # <<>>
  /\ Strip(From(entry, Find(entry, ":") + 1)) # <<>>

\* C19: from_annotation maps an absent or empty value to the empty map; a
\* value that starts with sha256:, sha384: or sha512: and has no "," to the
\* map binding the legacy key alone to the whole value; any other value to
\* the map of its kept entries: the value is split on ",", each entry at its
\* first ":" into a name and a digest, both trimmed, entries with no ":" or
\* with an empty name or digest are skipped, and a later entry replaces an
\* earlier one of the same name.
C19_Decode ==
  (Returned /\ call.op = "from_annotation") =>
    LET s == call.annotation_value IN
    IF s = None \/ s = <<>> THEN ret.value = EmptyMap
    ELSE IF LegacyForm(s)
    THEN DOMAIN ret.value = {LEGACY} /\ ret.value[LEGACY] = s
    ELSE
      LET entries == Split(s, ",")
          kept    == {k \in 1..Len(entries) : KeptEntry(entries[k])}
          name(k)   == Strip(EntryName(entries[k]))
          digest(k) == Strip(From(entries[k], Find(entries[k], ":") + 1))
      IN /\ DOMAIN ret.value = {name(k) : k \in kept}
         /\ \A k \in kept :
              (\A j \in kept : name(j) = name(k) => j <= k) =>
                ret.value[name(k)] = digest(k)

\* the value "a:a, a::": the second entry is trimmed and replaces the first
C19_Witness ==
  /\ Returned
  /\ call.op = "from_annotation"
  /\ call.annotation_value = <<"a", ":", "a", ",", " ", "a", ":", ":">>
  /\ DOMAIN ret.value = {NAME_A}
  /\ ret.value[NAME_A] = <<":">>

Body(patch) == [patch EXCEPT !.restartedAt = 0]

\* C16: reconcile invocations for different workloads, interleaved in any
\* order, do not affect one another.  Each invocation ends as it does when
\* run alone on its workload with the same registry answers: same outcome,
\* and the same patch body but for the timestamp.  Each patch call goes to
\* the endpoint of the invoking workload's kind with that workload's name
\* and namespace, so that a workload is changed by its own patch only.
C16_Isolation ==
  \A w \in Workloads :
    LET t     == threads[w]
        alone == reconcile(t.initial.kind, t.initial.name, t.initial.namespace,
                           t.initial.pod_spec, t.initial.metadata,
                           FORCE_PULL_POLICY, 0, t.answers)
    IN /\ t.pc = "done" =>
            /\ t.outcome = alone.outcome
            /\ Len(t.calls) = IF alone.patched THEN 1 ELSE 0
            /\ alone.patched => Body(t.calls[1].body) = Body(alone.patch)
       /\ \A k \in 1..Len(t.calls) :
            /\ t.calls[k].endpoint = patch_endpoint(t.initial.kind)
            /\ t.calls[k].name = t.initial.name
            /\ t.calls[k].namespace = t.initial.namespace
       /\ cluster[w] = IF t.calls = <<>> THEN t.initial
                       ELSE ApplyPatch(t.initial, t.calls[1].body)

\* two handlers that ran overlapped: the second patched its workload, the
\* first skipped on a failed resolution
C16_Witness ==
  \E v, w \in Workloads :
    /\ v # w
    /\ threads[v].pc = "done" /\ threads[w].pc = "done"
    /\ threads[w].overlapped
    /\ threads[w].outcome = "patched"
    /\ threads[w].calls # <<>>
    /\ threads[v].outcome = "skipped"
    /\ cluster[v].name = cluster[w].name

\* the challenge names no realm: none of its parameters is a non-empty realm
NoRealm(header) ==
  LET params == IF Contains(header, " ") THEN From(header, Find(header, " ") + 1)
                ELSE <<>>
      parts  == Split(params, ",")
  IN \A k \in 1..Len(parts) :
       ~(/\ Contains(parts[k], "=")
         /\ Strip(Upto(parts[k], Find(parts[k], "=") - 1)) = REALM
         /\ StripQuotes(Strip(From(parts[k], Find(parts[k], "=") + 1))) # <<>>)

\* the challenge's scheme is Bearer, whatever the case of its letters
BearerScheme(header) ==
  Lower(IF Contains(header, " ") THEN Upto(header, Find(header, " ") - 1)
        ELSE header) = BEARER

\* C21: when a 401 manifest answer has no WWW-Authenticate header, or a
\* challenge whose scheme is not Bearer (letter case ignored), or a Bearer
\* challenge without realm, no token request is sent, the manifest request
\* is not repeated, and the resolution fails.
C21_NoTokenWithoutBearerRealm ==
  (Returned /\ call.op = "get_digest" /\ call.beh.r1.status = 401) =>
    LET header == call.beh.r1.www_authenticate IN
    (\/ header = None \/ header = <<>>
     \/ ~BearerScheme(header)
     \/ NoRealm(header)) =>
      /\ Len(ret.wire) = 1
      /\ ret.wire[1].kind = "manifest"
      /\ ret.value.raised = "DigestFetchError"
      /\ ret.value.digest = None

\* a Basic challenge with a realm whose token endpoint would have answered
\* with a token: the endpoint is not asked
C21_Witness ==
  /\ Returned
  /\ call.op = "get_digest"
  /\ call.beh.r1.status = 401
  /\ call.beh.r1.www_authenticate = CHALLENGE_BASIC
  /\ call.beh.tok.token = TOKEN_T
  /\ call.beh.r2.status = 200
  /\ Len(ret.wire) = 1
  /\ ret.value.raised = "DigestFetchError"


\* the pod spec has no regular container with both a name and an image
NoRegularContainer(w) == _parse_containers(w.pod_spec.containers) = <<>>

\* lines 404-408: the tracked set of a workload, in tracked order
TrackedOf(w) ==
  select(_parse_containers(w.pod_spec.containers), w.metadata)
    \o (IF track_init_requested(w.metadata)
        THEN _parse_containers(w.pod_spec.initContainers) ELSE <<>>)

\* C22: a reconcile of a workload whose pod spec has no regular container with
\* both a name and an image (init containers and track-init-containers "true"
\* notwithstanding), or whose tracked set is empty after selection, ends with
\* no action: it sends no registry request, logs nothing, makes no patch call
\* and leaves the workload as it was
C22_NoActionExits ==
  (Returned /\ call.op = "reconcile"
     /\ (NoRegularContainer(call.workload) \/ TrackedOf(call.workload) = <<>>)) =>
    /\ ret.value.outcome =
         IF NoRegularContainer(call.workload) THEN "no_containers" ELSE "no_tracked"
    /\ ret.value.events = <<>>
    /\ ~ret.value.patched
    /\ ret.value.patch = NoPatch
    /\ ret.stored = call.workload

C22_Witness ==
  /\ Returned
  /\ call.op = "reconcile"
  /\ call.workload.pod_spec.containers = <<ContainerDict(None, IMAGE_TAGGED, None)>>
  /\ Len(call.workload.pod_spec.initContainers) = 1
  /\ call.workload.metadata.track_init = TRUE_STR
  /\ ret.value.outcome = "no_containers"
  /\ ret.value.events = <<>>


\* lines 469-470: the names of the containers among trk[k..], in tracked
\* order, whose image does not parse or whose resolution returns no digest
RECURSIVE FailingFrom(_, _, _)
FailingFrom(trk, answers, k) ==
  IF k > Len(trk) THEN <<>>
  ELSE (IF \/ ~parse(trk[k].image).ok
            \/ get_digest(parse(trk[k].image), answers[k]).raised # ""
         THEN <<trk[k].name>> ELSE <<>>)
         \o FailingFrom(trk, answers, k + 1)

\* the containers whose resolution shows in the events, in order of attempt
RECURSIVE AttemptOrder(_)
AttemptOrder(events) ==
  IF events = <<>> THEN <<>>
  ELSE LET rest == AttemptOrder(Tail(events)) IN
       IF Head(events).type \notin {"request", "warning"} THEN rest
       ELSE IF rest # <<>> /\ Head(rest) = Head(events).container THEN rest
       ELSE <<Head(events).container>> \o rest

EventsOfType(events, type) == SelectSeq(events, LAMBDA e : e.type = type)

\* C23: resolution is attempted for every tracked container, in tracked order,
\* even after an earlier container has failed; the decision to abandon or to
\* patch (summary, restart line, patch call) comes only after all of them; a
\* skipped reconcile logs one warning per failing container and exactly one
\* summary naming all and only the failing containers
C23_AttemptAllThenDecide ==
  (Returned /\ call.op = "reconcile" /\ TrackedOf(call.workload) # <<>>
     /\ ~NoRegularContainer(call.workload)) =>
    LET trk     == TrackedOf(call.workload)
        events  == ret.value.events
        failing == FailingFrom(trk, call.answers, 1)
    IN /\ AttemptOrder(events) = [k \in 1..Len(trk) |-> trk[k].name]
       /\ \A j, k \in 1..Len(events) :
            (j < k /\ events[j].type \in {"summary", "info", "patch"}) =>
              events[k].type \notin {"request", "warning"}
       /\ ret.value.outcome \in {"skipped", "patched", "unchanged"}
       /\ (ret.value.outcome = "skipped") <=> (failing # <<>>)
       /\ (ret.value.outcome = "skipped") =>
            /\ EventsOfType(events, "warning") =
                 [k \in 1..Len(failing) |-> Event("warning", failing[k], <<>>)]
            /\ EventsOfType(events, "summary") =
                 <<Event("summary", None, Join(failing, <<",", " ">>))>>


\* C24: convergence.  After a reconcile has patched a workload and the patch's
\* last-observed-digest annotation has been stored, the next reconcile of that
\* workload with the same pod spec, the same policy annotations and the same
\* registry digests issues no patch, whatever the container names (a single
\* container named sha256, sha384 or sha512 included)
C24_Convergence ==
  (Returned /\ call.op = "reconcile" /\ ret.again) =>
    /\ ret.stored.metadata.last_digest = ret.value.patch.last_digest
    /\ ~ret.next.patched
    /\ ret.next.outcome = "unchanged"
    /\ EventsOfType(ret.next.events, "patch") = <<>>


\* C25: building the tracked set does not modify the regular container list:
\* while the digests are fetched, and so when the patch is built, the
\* container list of the invocation is exactly the pod spec's regular
\* containers in order, and no pull-policy override of a patch call names an
\* init container, with or without track-init-containers and track/ignore
C25_ContainerListUntouched ==
  /\ (pc = "fetch") => (containers = _parse_containers(pod_spec.containers))
  /\ \A k \in 1..Len(patch_calls) :
       (patch_calls[k].pull_policy_names # None) =>
         \A j \in 1..Len(patch_calls[k].pull_policy_names) :
           \A c \in Range(_parse_containers(pod_spec.initContainers)) :
             patch_calls[k].pull_policy_names[j] # c.name


\* C26: first observation always restarts.  A workload with no (or an empty)
\* last-observed-digest annotation, at least one tracked container and all
\* digests resolved is patched by its first reconcile, whichever digests the
\* registry returns; it is left unpatched only when it has no regular
\* container, when nothing is tracked, or when a resolution fails
C26_FirstObservationRestarts ==
  (Returned /\ call.op = "reconcile" /\ call.workload.metadata.last_digest \in {None, <<>>}) =>
    /\ (/\ ~NoRegularContainer(call.workload)
        /\ TrackedOf(call.workload) # <<>>
        /\ FailingFrom(TrackedOf(call.workload), call.answers, 1) = <<>>) =>
         /\ ret.value.outcome = "patched"
         /\ ret.value.patched
         /\ EventsOfType(ret.value.events, "patch") = <<Event("patch", None, <<>>)>>
         /\ ret.stored.metadata.last_digest = ret.value.patch.last_digest
         /\ ret.stored.metadata.last_digest \notin {None, <<>>}
    /\ ~ret.value.patched =>
         \/ ret.value.outcome = "no_containers" /\ NoRegularContainer(call.workload)
         \/ ret.value.outcome = "no_tracked" /\ TrackedOf(call.workload) = <<>>
         \/ /\ ret.value.outcome \in {"skipped", "raised"}
            /\ FailingFrom(TrackedOf(call.workload), call.answers, 1) # <<>>

C26_Witness ==
  /\ Returned
  /\ call.op = "reconcile"
  /\ call.workload.metadata.last_digest = <<>>
  /\ Len(TrackedOf(call.workload)) = 2
  /\ call.answers[2].r1.digest = DIGEST_Y
  /\ ret.value.patched
  /\ ~ret.again


\* C27: round trip of live maps.  For every map m from container names
\* (without ':' or ',' and without surrounding whitespace; sha256, sha384 and
\* sha512 are such names) to non-empty digests without ',',
\* from_annotation(to_annotation(m)) equals m
C27_RoundTrip ==
  (Returned /\ call.op = "round_trip") => (ret.value = call.self)


\* the requests of one kind that the invocation sent for a container
RequestsFor(events, name, kind) ==
  SelectSeq(events, LAMBDA e : e.type = "request" /\ e.container = name
                                /\ e.detail = kind)

\* C28: every reconcile invocation ends in one of the outcomes no-action (no
\* regular container, nothing tracked, nothing changed), skipped or patched,
\* given that each HTTP call returns or times out; it sends at most two
\* manifest requests and one token request per tracked container, none for any
\* other container, and makes at most one patch call
C28_TerminatesBounded ==
  (Returned /\ call.op = "reconcile") =>
    /\ ret.value.outcome \in
         {"no_containers", "no_tracked", "unchanged", "skipped", "patched"}
    /\ \A k \in 1..Len(ret.value.events) :
         ret.value.events[k].type = "request" =>
           \E j \in 1..Len(TrackedOf(call.workload)) :
             TrackedOf(call.workload)[j].name = ret.value.events[k].container
    /\ \A j \in 1..Len(TrackedOf(call.workload)) :
         /\ Len(RequestsFor(ret.value.events,
                            TrackedOf(call.workload)[j].name, "manifest")) <= 2
         /\ Len(RequestsFor(ret.value.events,
                            TrackedOf(call.workload)[j].name, "token")) <= 1
    /\ Len(EventsOfType(ret.value.events, "patch")) <= 1
    /\ ret.value.patched <=> (ret.value.outcome = "patched")

====
